---------------------------- MODULE Spec2Model ----------------------------
(***************************************************************************)
(* A state-machine model of carma_pack.py: the CAR(p) Kalman filter        *)
(* (kalman_filter), the process simulator (carp_process), the root mapper  *)
(* (get_ar_roots) and the PSD credibility band                             *)
(* (CarSample.plot_power_spectrum).                                        *)
(*                                                                         *)
(* Numbers.  A float is a fixed-point integer with SCALE units per 1.0,    *)
(* rounded to nearest on every product and quotient.  A complex number is  *)
(* a pair <<re, im>> of such integers.  numpy arrays are functions on      *)
(* 0..n-1, so every index below is the index the source uses.              *)
(***************************************************************************)
EXTENDS Integers, Sequences, FiniteSets, TLC

\* fixed-point resolution: SCALE units are 1.0
SCALE == 100

\* largest number of time points of a call
MaxN == 3

\* an np.empty entry that has not been assigned yet
UNSET == "unset"

\* the exception-free marker of the err variable
NONE == "none"

\* nsamples=None, the default of the argument (a count is never negative)
NoneArg == -1

---------------------------------------------------------------------------
(* Real fixed-point arithmetic *)

Abs(x) == IF x < 0 THEN -x ELSE x

\* n / d rounded to the nearest integer, ties away from zero (d # 0 wherever
\* the model divides; see DivisorsNonZero)
RDiv(n, d) ==
  IF d = 0 THEN 0
  ELSE LET s == IF (n < 0) # (d < 0) THEN -1 ELSE 1
       IN  s * ((2 * Abs(n) + Abs(d)) \div (2 * Abs(d)))

\* float product and quotient
FMul(a, b) == RDiv(a * b, SCALE)
FDiv(a, b) == RDiv(a * SCALE, b)

---------------------------------------------------------------------------
(* Complex fixed-point arithmetic *)

Re(z) == z[1]
Im(z) == z[2]
CZero == <<0, 0>>
COne == <<SCALE, 0>>
CReal(x) == <<x, 0>>
CAdd(a, b) == <<a[1] + b[1], a[2] + b[2]>>
CSub(a, b) == <<a[1] - b[1], a[2] - b[2]>>
CNeg(a) == <<-a[1], -a[2]>>
CConj(a) == <<a[1], -a[2]>>
CMul(a, b) == <<RDiv(a[1] * b[1] - a[2] * b[2], SCALE),
                RDiv(a[1] * b[2] + a[2] * b[1], SCALE)>>
\* complex times real, complex over real
CScale(a, x) == <<FMul(a[1], x), FMul(a[2], x)>>
CDivR(a, x) == <<FDiv(a[1], x), FDiv(a[2], x)>>
\* a / b = a * conj(b) / |b|^2
CDiv(a, b) ==
  LET den == b[1] * b[1] + b[2] * b[2]
  IN  <<RDiv((a[1] * b[1] + a[2] * b[2]) * SCALE, den),
        RDiv((a[2] * b[1] - a[1] * b[2]) * SCALE, den)>>

\* z ** k for an integer k >= 0
RECURSIVE CPow(_, _)
CPow(z, k) == IF k = 0 THEN COne ELSE CMul(CPow(z, k - 1), z)

\* np.exp of a complex number: the degree-4 Taylor polynomial of exp(z/4),
\* squared twice
CExp(z) ==
  LET q  == <<RDiv(z[1], 4), RDiv(z[2], 4)>>
      q2 == CMul(q, q)
      q3 == CMul(q2, q)
      q4 == CMul(q3, q)
      e  == CAdd(CAdd(CAdd(CAdd(COne, q), CDivR(q2, 2 * SCALE)),
                      CDivR(q3, 6 * SCALE)), CDivR(q4, 24 * SCALE))
      e2 == CMul(e, e)
  IN  CMul(e2, e2)

---------------------------------------------------------------------------
(* Arrays: a vector is a function on 0..n-1, a matrix a vector of rows *)

Size(v) == Cardinality(DOMAIN v)
Idx(n) == 0 .. (n - 1)
EmptyArr == [k \in {} |-> 0]

RECURSIVE CSumTo(_, _)
CSumTo(v, n) == IF n = 0 THEN CZero ELSE CAdd(CSumTo(v, n - 1), v[n - 1])
\* v.sum() of a complex vector
CSum(v) == CSumTo(v, Size(v))
\* M.sum() of a complex matrix
MatSum(M) == CSum([j \in DOMAIN M |-> CSum(M[j])])
\* M.sum(axis=1): one sum per row
RowSums(M) == [j \in DOMAIN M |-> CSum(M[j])]
\* M.sum(axis=0): one sum per column
ColSums(M) == [k \in DOMAIN M |-> CSum([j \in DOMAIN M |-> M[j][k]])]

(* The determinant by expansion along row 0, and scipy.linalg.solve by
   Cramer's rule: x[k] = det(A with column k replaced by b) / det(A). *)
Minor(M, n, c) ==
  [j \in Idx(n - 1) |-> [k \in Idx(n - 1) |->
      M[j + 1][IF k < c THEN k ELSE k + 1]]]

RECURSIVE DetN(_, _)
RECURSIVE DetRow(_, _, _)
DetRow(M, n, c) ==
  IF c = 0 THEN CZero
  ELSE LET t == CMul(M[0][c - 1], DetN(Minor(M, n, c - 1), n - 1))
       IN  CAdd(DetRow(M, n, c - 1), IF (c - 1) % 2 = 0 THEN t ELSE CNeg(t))
DetN(M, n) == IF n = 0 THEN COne ELSE DetRow(M, n, n)

Det(M) == DetN(M, Size(M))

ReplaceCol(M, c, b) ==
  [j \in DOMAIN M |-> [k \in DOMAIN M |-> IF k = c THEN b[j] ELSE M[j][k]]]

\* scipy raises LinAlgError on a singular matrix
Singular(M) == Det(M) = CZero

solve(A, b) == [k \in DOMAIN A |-> CDiv(Det(ReplaceCol(A, k, b)), Det(A))]

---------------------------------------------------------------------------
(* State *)

VARIABLES
  fn,               \* the function called: kalman_filter, carp_process, ...
  pc,               \* the statement about to run, "returned" or "raised"
  err,              \* the exception raised, NONE while there is none
  ret,              \* the value returned
  time, y, yvar,    \* the caller's arrays, passed by reference
  sigsqr, ar_roots, \* driving-noise variance, roots of the polynomial
  time0, y0, yvar0, \* history: the caller's arrays as they were at the call
  prev,             \* history: the observations and outputs of earlier calls
  EigenMat, Jvector, StateVar,
  PredictionVar, StateVector,
  kalman_mean, kalman_var, innovation,
  i, dt, KalmanGain, StateTransition,
  snap,             \* history: the carried state at the head of the iteration
  steps,            \* history: loop indices whose body ran to its end, in order
  writes,           \* history: <<array, index>> of every output entry assigned
  obj,              \* the objects StateVar, PredictionVar, StateVector name
  state_vector, car_process, StateCvar,
  draws,            \* history: how many random vectors were drawn
  tests,            \* history: the values of the tests carp_process evaluates
  qpo_width, qpo_centroid, p,
  samples,          \* self._samples: its "sigma" and "ar_coefs" arrays
  sigmas, ar_coefs, nsamples, percentile, index,
  frequencies, psd_credint, lower, upper,
  freq, sigma, ar_coef,   \* the arguments of power_spectrum
  ar_poly, pspec

inVars == <<time, y, yvar, sigsqr, ar_roots>>
histVars == <<time0, y0, yvar0, prev>>
basisVars == <<EigenMat, Jvector, StateVar>>
kfVars == <<PredictionVar, StateVector, kalman_mean, kalman_var, innovation,
            i, dt, KalmanGain, StateTransition, snap, steps, writes, obj>>
cpVars == <<state_vector, car_process, StateCvar, draws, tests>>
grVars == <<qpo_width, qpo_centroid, p>>
psVars == <<samples, sigmas, ar_coefs, nsamples, percentile, index,
            frequencies, psd_credint, lower, upper>>
pwVars == <<freq, sigma, ar_coef, ar_poly, pspec>>

---------------------------------------------------------------------------
(* The rotated basis, shared by kalman_filter and carp_process *)

\* EigenMat = np.ones((p, p)); EigenMat[1, :] = ar_roots;
\* EigenMat[k, :] = ar_roots ** k for k in 2..p-1
EigenMatOf(roots) ==
  [k \in DOMAIN roots |-> [j \in DOMAIN roots |->
      IF k = 0 THEN COne
      ELSE IF k = 1 THEN roots[j]
      ELSE CPow(roots[j], k)]]

\* EigenMat[1, :] is row 1 of a p x p matrix: out of bounds unless p >= 2
Row1InBounds(roots) == 1 < Size(roots)

\* Rvector = np.zeros(p); Rvector[-1] = 1.0
RvectorOf(roots) ==
  [k \in DOMAIN roots |-> IF k = Size(roots) - 1 THEN COne ELSE CZero]

\* StateVar[:, j] = -sigsqr * Jvector * conj(Jvector[j])
\*                  / (ar_roots + conj(ar_roots[j]))
StateVarOf(s2, J, roots) ==
  [r \in DOMAIN roots |-> [j \in DOMAIN roots |->
      CDiv(CMul(CScale(J[r], -s2), CConj(J[j])),
           CAdd(roots[r], CConj(roots[j])))]]

---------------------------------------------------------------------------
(* kalman_filter: the value each statement of the recursion assigns *)

\* the gain from the column sums, PredictionVar.sum(axis=0)
GainOfColumns(P, v) == [j \in DOMAIN P |-> CDivR(ColSums(P)[j], v)]

\* KalmanGain = PredictionVar.sum(axis=1) / kalman_var[i - 1]
GainOf(P, v) == [j \in DOMAIN P |-> CDivR(RowSums(P)[j], v)]

\* StateVector += innovation * KalmanGain
StateUpdated(s, e, K) == [j \in DOMAIN s |-> CAdd(s[j], CScale(K[j], e))]

\* PredictionVar -= kalman_var[i - 1] * (KalmanGain * KalmanGain.H)
PredVarReduced(P, v, K) ==
  [j \in DOMAIN P |-> [k \in DOMAIN P |->
      CSub(P[j][k], CScale(CMul(K[j], CConj(K[k])), v))]]

\* StateTransition = exp(ar_roots * dt)
TransitionOf(roots, d) == [j \in DOMAIN roots |-> CExp(CScale(roots[j], d))]

\* StateVector = np.multiply(StateVector, StateTransition)
StatePropagated(s, T) == [j \in DOMAIN s |-> CMul(s[j], T[j])]

\* PredictionVar = np.multiply(T * T.H, PredictionVar - StateVar) + StateVar
PredVarRelaxed(T, P, S) ==
  [j \in DOMAIN P |-> [k \in DOMAIN P |->
      CAdd(CMul(CMul(T[j], CConj(T[k])), CSub(P[j][k], S[j][k])), S[j][k])]]

\* kalman_mean[i] = StateVector.sum().real
PredMeanOf(s) == Re(CSum(s))

\* kalman_var[i] = PredictionVar.sum().real + yvar[i]
PredVarianceOf(P, v) == Re(MatSum(P)) + v

\* the innovation taken from the last observation instead of the current one
InnovationOfLast(yi, m) == y[Size(y) - 1] - m

\* innovation = y[i] - kalman_mean[i]
InnovationOf(yi, m) == yi - m

---------------------------------------------------------------------------
(* Objects: which array each of the names StateVar, PredictionVar and
   StateVector is bound to. 0 is no object; next is the first unused one. *)

\* the names of a call that has bound none of them yet
NoObjects(n) ==
  [StateVar |-> 0, PredictionVar |-> 0, StateVector |-> 0, next |-> n]

\* the same object under another name, no copy made
SameObject(o, new) == o

\* a.copy() and np.matrix(a): a new object holding the values of a
CopyOf(o, new) == new

\* an operation in place on the object o, leaving v in it: what the name nm,
\* whose value was old, shows afterwards
WrittenTo(o, v, nm, old) == IF obj[nm] = o THEN v ELSE old

\* the objects the three names are bound to
ObjectsOf(ob) == {ob.StateVar, ob.PredictionVar, ob.StateVector} \ {0}

---------------------------------------------------------------------------
(* Inputs of a kalman_filter call *)

TimeValues == {0, SCALE, 2 * SCALE}
\* time grids from 0 with these steps: forwards, and one step backwards
GapValues == {-SCALE, SCALE, 2 * SCALE}
RECURSIVE SumGaps(_, _)
SumGaps(g, k) == IF k = 0 THEN 0 ELSE SumGaps(g, k - 1) + g[k]
TimeGrids(n) ==
  {[k \in Idx(n) |-> SumGaps(g, k)] : g \in [1 .. (n - 1) -> GapValues]}
YValues == {-SCALE, SCALE}
\* the observation variance of point k
ObsVarAt(k) == (SCALE \div 2) + 25 * k

\* a conjugate pair, a pair with a real third root, a single real root, no
\* root, a repeated root
RootPair == [k \in Idx(2) |-> IF k = 0 THEN <<-SCALE, SCALE>> ELSE <<-SCALE, -SCALE>>]
RootTriple == [k \in Idx(3) |-> IF k = 0 THEN <<-SCALE, SCALE>>
                                ELSE IF k = 1 THEN <<-SCALE, -SCALE>>
                                ELSE <<-2 * SCALE, 0>>]
RootSingle == [k \in Idx(1) |-> <<-SCALE, 0>>]
RootNone == EmptyArr
RootDouble == [k \in Idx(2) |-> <<-SCALE, 0>>]
KalmanRoots == {RootPair, RootTriple, RootSingle, RootNone, RootDouble}

\* the lengths of y and yvar for n time points: equal to n, or one of them off
ObsLengths(n) ==
  {<<n, n>>, <<n + 1, n>>, <<n, n + 1>>} \cup
  (IF n > 0 THEN {<<n - 1, n>>, <<n, n - 1>>} ELSE {})

---------------------------------------------------------------------------
(* Initial state and the unwinding of a call *)

Init ==
  /\ fn = NONE /\ pc = "idle" /\ err = NONE /\ ret = NONE
  /\ time = EmptyArr /\ y = EmptyArr /\ yvar = EmptyArr
  /\ sigsqr = 0 /\ ar_roots = EmptyArr
  /\ time0 = EmptyArr /\ y0 = EmptyArr /\ yvar0 = EmptyArr /\ prev = <<>>
  /\ EigenMat = EmptyArr /\ Jvector = EmptyArr /\ StateVar = EmptyArr
  /\ PredictionVar = EmptyArr /\ StateVector = EmptyArr
  /\ kalman_mean = EmptyArr /\ kalman_var = EmptyArr /\ innovation = 0
  /\ i = 0 /\ dt = 0 /\ KalmanGain = EmptyArr /\ StateTransition = EmptyArr
  /\ snap = NONE /\ steps = <<>> /\ writes = <<>> /\ obj = NoObjects(1)
  /\ state_vector = EmptyArr /\ car_process = EmptyArr /\ StateCvar = EmptyArr
  /\ draws = 0 /\ tests = <<>>
  /\ qpo_width = EmptyArr /\ qpo_centroid = EmptyArr /\ p = 0
  /\ samples = NONE /\ sigmas = EmptyArr /\ ar_coefs = EmptyArr
  /\ nsamples = NoneArg /\ percentile = 0 /\ index = EmptyArr
  /\ frequencies = EmptyArr /\ psd_credint = EmptyArr /\ lower = 0 /\ upper = 0
  /\ freq = EmptyArr /\ sigma = 0 /\ ar_coef = EmptyArr
  /\ ar_poly = EmptyArr /\ pspec = EmptyArr

\* an exception leaves the function: nothing is returned
Raise(e) == pc' = "raised" /\ err' = e /\ ret' = ret

Goto(l) == pc' = l /\ err' = err /\ ret' = ret

---------------------------------------------------------------------------
(* kalman_filter, lines 281-356 *)

KF_Call ==
  /\ pc = "idle"
  /\ \E n \in 0 .. MaxN :
       \E t \in TimeGrids(n), lens \in ObsLengths(n) :
         \E obs \in [Idx(lens[1]) -> YValues], roots \in KalmanRoots :
           /\ time' = t /\ y' = obs
           /\ yvar' = [k \in Idx(lens[2]) |-> ObsVarAt(k)]
           /\ sigsqr' = 4 * SCALE /\ ar_roots' = roots
           /\ time0' = t /\ y0' = obs /\ yvar0' = yvar'
  /\ fn' = "kalman_filter"
  /\ Goto("kf_eigen")
  /\ UNCHANGED <<cpVars, grVars, psVars, basisVars, kfVars, prev>>
  /\ UNCHANGED pwVars

\* lines 293-300
KF_Eigen ==
  /\ pc = "kf_eigen"
  /\ IF Row1InBounds(ar_roots)
       THEN EigenMat' = EigenMatOf(ar_roots) /\ Goto("kf_solve")
       ELSE EigenMat' = [k \in DOMAIN ar_roots |-> [j \in DOMAIN ar_roots |-> COne]]
            /\ Raise("IndexError")
  /\ UNCHANGED <<cpVars, grVars, psVars, fn, inVars, histVars, Jvector, StateVar, kfVars>>
  /\ UNCHANGED pwVars

\* lines 303-307
KF_Solve ==
  /\ pc = "kf_solve"
  /\ IF Singular(EigenMat)
       THEN Jvector' = Jvector /\ Raise("LinAlgError")
       ELSE Jvector' = solve(EigenMat, RvectorOf(ar_roots)) /\ Goto("kf_statevar")
  /\ UNCHANGED <<cpVars, grVars, psVars, fn, inVars, histVars, EigenMat, StateVar, kfVars>>
  /\ UNCHANGED pwVars

\* lines 310-315
KF_StateVar ==
  /\ pc = "kf_statevar"
  /\ StateVar' = StateVarOf(sigsqr, Jvector, ar_roots)
  /\ obj' = [obj EXCEPT !.StateVar = obj.next, !.next = obj.next + 1]
  /\ Goto("kf_alloc")
  /\ UNCHANGED <<cpVars, grVars, psVars, fn, inVars, histVars, EigenMat, Jvector,
                 PredictionVar, StateVector, kalman_mean, kalman_var,
                 innovation, i, dt, KalmanGain, StateTransition, snap, steps,
                 writes>>
  /\ UNCHANGED pwVars

\* lines 318-324: the copies, the empty output arrays, kalman_mean[0] = 0.0
KF_Alloc ==
  /\ pc = "kf_alloc"
  /\ PredictionVar' = StateVar
  /\ StateVector' = [j \in DOMAIN ar_roots |-> CZero]
  /\ obj' = [obj EXCEPT !.PredictionVar = CopyOf(obj.StateVar, obj.next),
                        !.StateVector = obj.next + 1,
                        !.next = obj.next + 2]
  /\ kalman_var' = [k \in DOMAIN time |-> UNSET]
  /\ IF 0 \in DOMAIN time
       THEN /\ kalman_mean' = [k \in DOMAIN time |-> IF k = 0 THEN 0 ELSE UNSET]
            /\ writes' = Append(writes, <<"mean", 0>>)
            /\ Goto("kf_var0")
       ELSE /\ kalman_mean' = [k \in DOMAIN time |-> UNSET]
            /\ writes' = writes
            /\ Raise("IndexError")
  /\ UNCHANGED <<cpVars, grVars, psVars, fn, inVars, histVars, basisVars, innovation, i, dt,
                 KalmanGain, StateTransition, snap, steps>>
  /\ UNCHANGED pwVars

\* line 325
KF_Var0 ==
  /\ pc = "kf_var0"
  /\ IF 0 \in DOMAIN yvar
       THEN /\ kalman_var' = [kalman_var EXCEPT ![0] = PredVarianceOf(PredictionVar, yvar[0])]
            /\ writes' = Append(writes, <<"var", 0>>)
            /\ Goto("kf_innov0")
       ELSE UNCHANGED <<kalman_var, writes>> /\ Raise("IndexError")
  /\ UNCHANGED <<cpVars, grVars, psVars, fn, inVars, histVars, basisVars, PredictionVar, StateVector,
                 kalman_mean, innovation, i, dt, KalmanGain, StateTransition,
                 snap, steps>>
  /\ UNCHANGED pwVars
  /\ UNCHANGED obj

\* line 328; lines 331-334 rewrap the arrays as matrices of the same values
KF_Innov0 ==
  /\ pc = "kf_innov0"
  /\ IF 0 \in DOMAIN y
       THEN /\ innovation' = y[0] /\ i' = 1 /\ Goto("kf_loop")
            /\ obj' = [obj EXCEPT
                 !.StateVector = CopyOf(obj.StateVector, obj.next),
                 !.StateVar = CopyOf(obj.StateVar, obj.next + 1),
                 !.PredictionVar = CopyOf(obj.PredictionVar, obj.next + 2),
                 !.next = obj.next + 3]
       ELSE UNCHANGED <<innovation, i, obj>> /\ Raise("IndexError")
  /\ UNCHANGED <<cpVars, grVars, psVars, fn, inVars, histVars, basisVars, PredictionVar, StateVector,
                 kalman_mean, kalman_var, dt, KalmanGain, StateTransition,
                 snap, steps, writes>>
  /\ UNCHANGED pwVars

\* lines 337-338: for i in xrange(1, time.size), dt = time[i] - time[i - 1];
\* line 356 when the range is exhausted
KF_Loop ==
  /\ pc = "kf_loop"
  /\ IF i < Size(time)
       THEN /\ dt' = time[i] - time[i - 1]
            /\ snap' = [P |-> PredictionVar, state |-> StateVector,
                        innov |-> innovation]
            /\ Goto("kf_gain")
       ELSE /\ UNCHANGED <<dt, snap>>
            /\ pc' = "returned" /\ err' = err
            /\ ret' = <<kalman_mean, kalman_var>>
  /\ UNCHANGED <<cpVars, grVars, psVars, fn, inVars, histVars, basisVars, PredictionVar, StateVector,
                 kalman_mean, kalman_var, innovation, i, KalmanGain,
                 StateTransition, steps, writes>>
  /\ UNCHANGED pwVars
  /\ UNCHANGED obj

\* line 340
KF_Gain ==
  /\ pc = "kf_gain"
  /\ KalmanGain' = GainOf(PredictionVar, kalman_var[i - 1])
  /\ Goto("kf_state")
  /\ UNCHANGED <<cpVars, grVars, psVars, fn, inVars, histVars, basisVars, PredictionVar, StateVector,
                 kalman_mean, kalman_var, innovation, i, dt, StateTransition,
                 snap, steps, writes>>
  /\ UNCHANGED pwVars
  /\ UNCHANGED obj

\* line 342
KF_State ==
  /\ pc = "kf_state"
  /\ StateVector' = StateUpdated(StateVector, innovation, KalmanGain)
  /\ StateVar' = WrittenTo(obj.StateVector, StateVector', "StateVar", StateVar)
  /\ PredictionVar' = WrittenTo(obj.StateVector, StateVector', "PredictionVar",
                                PredictionVar)
  /\ Goto("kf_predvar")
  /\ UNCHANGED <<cpVars, grVars, psVars, fn, inVars, histVars, EigenMat, Jvector, obj,
                 kalman_mean, kalman_var, innovation, i, dt, KalmanGain,
                 StateTransition, snap, steps, writes>>
  /\ UNCHANGED pwVars

\* line 344
KF_PredVar ==
  /\ pc = "kf_predvar"
  /\ PredictionVar' = PredVarReduced(PredictionVar, kalman_var[i - 1], KalmanGain)
  /\ StateVar' = WrittenTo(obj.PredictionVar, PredictionVar', "StateVar", StateVar)
  /\ StateVector' = WrittenTo(obj.PredictionVar, PredictionVar', "StateVector",
                              StateVector)
  /\ Goto("kf_trans")
  /\ UNCHANGED <<cpVars, grVars, psVars, fn, inVars, histVars, EigenMat, Jvector, obj,
                 kalman_mean, kalman_var, innovation, i, dt, KalmanGain,
                 StateTransition, snap, steps, writes>>
  /\ UNCHANGED pwVars

\* lines 346-347
KF_Trans ==
  /\ pc = "kf_trans"
  /\ StateTransition' = TransitionOf(ar_roots, dt)
  /\ StateVector' = StatePropagated(StateVector, StateTransition')
  /\ obj' = [obj EXCEPT !.StateVector = obj.next, !.next = obj.next + 1]
  /\ Goto("kf_relax")
  /\ UNCHANGED <<cpVars, grVars, psVars, fn, inVars, histVars, basisVars, PredictionVar,
                 kalman_mean, kalman_var, innovation, i, dt, KalmanGain,
                 snap, steps, writes>>
  /\ UNCHANGED pwVars

\* line 349
KF_Relax ==
  /\ pc = "kf_relax"
  /\ PredictionVar' = PredVarRelaxed(StateTransition, PredictionVar, StateVar)
  /\ obj' = [obj EXCEPT !.PredictionVar = obj.next, !.next = obj.next + 1]
  /\ Goto("kf_mean")
  /\ UNCHANGED <<cpVars, grVars, psVars, fn, inVars, histVars, basisVars, StateVector,
                 kalman_mean, kalman_var, innovation, i, dt, KalmanGain,
                 StateTransition, snap, steps, writes>>
  /\ UNCHANGED pwVars

\* line 351
KF_Mean ==
  /\ pc = "kf_mean"
  /\ kalman_mean' = [kalman_mean EXCEPT ![i] = PredMeanOf(StateVector)]
  /\ writes' = Append(writes, <<"mean", i>>)
  /\ Goto("kf_var")
  /\ UNCHANGED <<cpVars, grVars, psVars, fn, inVars, histVars, basisVars, PredictionVar, StateVector,
                 kalman_var, innovation, i, dt, KalmanGain, StateTransition,
                 snap, steps>>
  /\ UNCHANGED pwVars
  /\ UNCHANGED obj

\* line 352
KF_Var ==
  /\ pc = "kf_var"
  /\ IF i \in DOMAIN yvar
       THEN /\ kalman_var' = [kalman_var EXCEPT ![i] = PredVarianceOf(PredictionVar, yvar[i])]
            /\ writes' = Append(writes, <<"var", i>>)
            /\ Goto("kf_innov")
       ELSE UNCHANGED <<kalman_var, writes>> /\ Raise("IndexError")
  /\ UNCHANGED <<cpVars, grVars, psVars, fn, inVars, histVars, basisVars, PredictionVar, StateVector,
                 kalman_mean, innovation, i, dt, KalmanGain, StateTransition,
                 snap, steps>>
  /\ UNCHANGED pwVars
  /\ UNCHANGED obj

\* line 354, and the loop's next index
KF_Innov ==
  /\ pc = "kf_innov"
  /\ IF i \in DOMAIN y
       THEN /\ innovation' = InnovationOf(y[i], kalman_mean[i])
            /\ steps' = Append(steps, i)
            /\ i' = i + 1
            /\ Goto("kf_loop")
       ELSE UNCHANGED <<innovation, steps, i>> /\ Raise("IndexError")
  /\ UNCHANGED <<cpVars, grVars, psVars, fn, inVars, histVars, basisVars, PredictionVar, StateVector,
                 kalman_mean, kalman_var, dt, KalmanGain, StateTransition,
                 snap, writes>>
  /\ UNCHANGED pwVars
  /\ UNCHANGED obj

\* lines 281-292 again: the caller, holding the arrays a call on one
\* observation and one variance per time point returned, calls kalman_filter
\* once more with one observation changed; the locals of the new call are new
\* objects
KF_Recall ==
  /\ pc = "returned" /\ fn = "kalman_filter" /\ prev = <<>>
  /\ Size(y) = Size(time) /\ Size(yvar) = Size(time)
  /\ \E j \in DOMAIN y : \E v \in YValues \ {y[j]} :
       /\ y' = [y EXCEPT ![j] = v]
       /\ y0' = y'
  /\ prev' = <<[y |-> y, kalman_mean |-> ret[1], kalman_var |-> ret[2],
                objects |-> ObjectsOf(obj)]>>
  /\ obj' = NoObjects(obj.next)
  /\ EigenMat' = EmptyArr /\ Jvector' = EmptyArr /\ StateVar' = EmptyArr
  /\ PredictionVar' = EmptyArr /\ StateVector' = EmptyArr
  /\ kalman_mean' = EmptyArr /\ kalman_var' = EmptyArr /\ innovation' = 0
  /\ i' = 0 /\ dt' = 0 /\ KalmanGain' = EmptyArr /\ StateTransition' = EmptyArr
  /\ snap' = NONE /\ steps' = <<>> /\ writes' = <<>>
  /\ pc' = "kf_eigen" /\ err' = err /\ ret' = NONE
  /\ UNCHANGED <<fn, time, yvar, sigsqr, ar_roots, time0, yvar0, cpVars,
                 grVars, psVars, pwVars>>

vars == <<fn, pc, err, ret, inVars, histVars, basisVars, kfVars, cpVars,
          grVars, psVars, pwVars>>

NextKalman ==
  \/ KF_Call \/ KF_Eigen \/ KF_Solve \/ KF_StateVar \/ KF_Alloc \/ KF_Var0
  \/ KF_Innov0 \/ KF_Loop \/ KF_Gain \/ KF_State \/ KF_PredVar \/ KF_Trans
  \/ KF_Relax \/ KF_Mean \/ KF_Var \/ KF_Innov

SpecKalman == Init /\ [][NextKalman]_vars

\* two calls that differ in one observation
NextKalmanTwice == NextKalman \/ KF_Recall

SpecKalmanTwice == Init /\ [][NextKalmanTwice]_vars

\* no quotient of the recursion has a zero divisor
DivisorsNonZero ==
  /\ pc \in {"kf_gain", "kf_predvar"} => kalman_var[i - 1] # 0

---------------------------------------------------------------------------
(* carp_process, lines 413-502 *)

\* ndarray.sort(): the same values in non-decreasing order, in place
IsSorted(a) == \A j, k \in DOMAIN a : j < k => a[j] <= a[k]
Count(a, v) == Cardinality({k \in DOMAIN a : a[k] = v})
SortedArr(a) ==
  CHOOSE s \in [DOMAIN a -> {a[k] : k \in DOMAIN a}] :
    IsSorted(s) /\ \A k \in DOMAIN a : Count(s, a[k]) = Count(a, a[k])

\* np.any(ar_roots.real < 0)
StationaryTest(roots) == \E k \in DOMAIN roots : Re(roots[k]) < 0

\* np.any(|r1 - r2| / |r1 + r2| > tol) over the grid of all pairs, tol = 1e-8:
\* at this resolution two roots differ by more than tol exactly when they differ
UniqueTest(roots) == \E j, k \in DOMAIN roots : roots[j] # roots[k]

\* StateCvar[:, j] = StateVar[:, j]
\*                   * (1.0 - exp((ar_roots + conj(ar_roots[j])) * dt))
StateCvarOf(S, roots, d) ==
  [r \in DOMAIN roots |-> [j \in DOMAIN roots |->
      CMul(S[r][j],
           CSub(COne, CExp(CScale(CAdd(roots[r], CConj(roots[j])), d))))]]

\* ComplexCovar = [[V.real, V.imag], [-V.imag, V.real]], 2p x 2p and real
ComplexCovarOf(V) ==
  LET n == Size(V)
  IN  [r \in Idx(2 * n) |-> [c \in Idx(2 * n) |->
         IF r < n /\ c < n THEN Re(V[r][c])
         ELSE IF r < n THEN Im(V[r][c - n])
         ELSE IF c < n THEN -Im(V[r - n][c])
         ELSE Re(V[r - n][c - n])]]

\* np.random.multivariate_normal(np.zeros(2 * p), cov): any vector the
\* distribution can give; the mean itself when the covariance is zero
DrawValues == {-SCALE, SCALE \div 2}
MultivariateNormal(cov) ==
  IF \A r, c \in DOMAIN cov : cov[r][c] = 0
    THEN {[k \in DOMAIN cov |-> 0]}
    ELSE {[k \in DOMAIN cov |-> IF k % 2 = 0 THEN v ELSE -(v \div 2)] :
            v \in DrawValues}

\* state_components[0:p] + 1j * state_components[p:]
ComplexOf(c, n) == [k \in Idx(n) |-> <<c[k], c[k + n]>>]

\* state_vector * np.exp(ar_roots * (time[i] - time[i - 1]))
StateCmeanOf(s, roots, d) ==
  [k \in DOMAIN roots |-> CMul(s[k], CExp(CScale(roots[k], d)))]

\* np.real(np.sum(rotated_MA_coefs * state_vector)), the coefficients all 1
ProcessValueOf(s) == Re(CSum([k \in DOMAIN s |-> CMul(COne, s[k])]))

RootUnstable == [k \in Idx(2) |-> IF k = 0 THEN <<SCALE, SCALE>> ELSE <<SCALE, -SCALE>>]
CarpRoots == {RootPair, RootSingle, RootNone, RootDouble, RootUnstable}

CP_Call ==
  /\ pc = "idle"
  /\ \E n \in 0 .. MaxN :
       \E t \in [Idx(n) -> TimeValues], roots \in CarpRoots :
         /\ time' = t /\ time0' = t
         /\ sigsqr' = 4 * SCALE /\ ar_roots' = roots
  /\ fn' = "carp_process"
  /\ Goto("cp_sort")
  /\ UNCHANGED <<y, yvar, y0, yvar0, prev, basisVars, kfVars, cpVars, grVars,
                 psVars>>
  /\ UNCHANGED pwVars

\* lines 422-423
CP_Sort ==
  /\ pc = "cp_sort"
  /\ time' = SortedArr(time)
  /\ Goto("cp_check")
  /\ UNCHANGED <<fn, y, yvar, sigsqr, ar_roots, histVars, basisVars, kfVars,
                 cpVars, grVars, psVars>>
  /\ UNCHANGED pwVars

\* lines 425-439: both tests are evaluated and their values dropped; the
\* except clauses hold a string and np.any raises no ValueError
CP_Check ==
  /\ pc = "cp_check"
  /\ tests' = <<StationaryTest(ar_roots), UniqueTest(ar_roots)>>
  /\ Goto("cp_eigen")
  /\ UNCHANGED <<fn, inVars, histVars, basisVars, kfVars, state_vector,
                 car_process, StateCvar, draws, grVars, psVars>>
  /\ UNCHANGED pwVars

\* lines 444-447
CP_Eigen ==
  /\ pc = "cp_eigen"
  /\ IF Row1InBounds(ar_roots)
       THEN EigenMat' = EigenMatOf(ar_roots) /\ Goto("cp_solve")
       ELSE EigenMat' = [k \in DOMAIN ar_roots |-> [j \in DOMAIN ar_roots |-> COne]]
            /\ Raise("IndexError")
  /\ UNCHANGED <<fn, inVars, histVars, Jvector, StateVar, kfVars, cpVars,
                 grVars, psVars>>
  /\ UNCHANGED pwVars

\* lines 450-454
CP_Solve ==
  /\ pc = "cp_solve"
  /\ IF Singular(EigenMat)
       THEN Jvector' = Jvector /\ Raise("LinAlgError")
       ELSE Jvector' = solve(EigenMat, RvectorOf(ar_roots)) /\ Goto("cp_statevar")
  /\ UNCHANGED <<fn, inVars, histVars, EigenMat, StateVar, kfVars, cpVars,
                 grVars, psVars>>
  /\ UNCHANGED pwVars

\* lines 457-462
CP_StateVar ==
  /\ pc = "cp_statevar"
  /\ StateVar' = StateVarOf(sigsqr, Jvector, ar_roots)
  /\ Goto("cp_draw0")
  /\ UNCHANGED <<fn, inVars, histVars, EigenMat, Jvector, kfVars, cpVars,
                 grVars, psVars>>
  /\ UNCHANGED pwVars

\* lines 466-478: the stationary draw, then car_process[0]
CP_Draw0 ==
  /\ pc = "cp_draw0"
  /\ \E c \in MultivariateNormal(ComplexCovarOf(StateVar)) :
       state_vector' = ComplexOf(c, Size(ar_roots))
  /\ draws' = draws + 1
  /\ StateCvar' = [r \in DOMAIN ar_roots |-> [j \in DOMAIN ar_roots |-> UNSET]]
  /\ IF 0 \in DOMAIN time
       THEN /\ car_process' = [k \in DOMAIN time |->
                                 IF k = 0 THEN ProcessValueOf(state_vector') ELSE UNSET]
            /\ i' = 1
            /\ Goto("cp_loop")
       ELSE /\ car_process' = [k \in DOMAIN time |-> UNSET]
            /\ i' = i
            /\ Raise("IndexError")
  /\ UNCHANGED <<fn, inVars, histVars, basisVars, PredictionVar, StateVector,
                 kalman_mean, kalman_var, innovation, dt, KalmanGain,
                 StateTransition, snap, steps, writes, tests, grVars, psVars>>
  /\ UNCHANGED pwVars
  /\ UNCHANGED obj

\* lines 481-500: one iteration of the loop
CP_Step ==
  /\ pc = "cp_loop"
  /\ i < Size(time)
  /\ StateCvar' = StateCvarOf(StateVar, ar_roots, time[i] - time[i - 1])
  /\ \E c \in MultivariateNormal(ComplexCovarOf(StateCvar')) :
       state_vector' =
         [k \in DOMAIN ar_roots |->
            CAdd(StateCmeanOf(state_vector, ar_roots, time[i] - time[i - 1])[k],
                 ComplexOf(c, Size(ar_roots))[k])]
  /\ draws' = draws + 1
  /\ car_process' = [car_process EXCEPT ![i] = ProcessValueOf(state_vector')]
  /\ i' = i + 1
  /\ Goto("cp_loop")
  /\ UNCHANGED <<fn, inVars, histVars, basisVars, PredictionVar, StateVector,
                 kalman_mean, kalman_var, innovation, dt, KalmanGain,
                 StateTransition, snap, steps, writes, tests, grVars, psVars>>
  /\ UNCHANGED pwVars
  /\ UNCHANGED obj

\* line 502
CP_Return ==
  /\ pc = "cp_loop"
  /\ ~(i < Size(time))
  /\ pc' = "returned" /\ err' = err /\ ret' = car_process
  /\ UNCHANGED <<fn, inVars, histVars, basisVars, kfVars, cpVars, grVars, psVars>>
  /\ UNCHANGED pwVars

NextCarp ==
  \/ CP_Call \/ CP_Sort \/ CP_Check \/ CP_Eigen \/ CP_Solve \/ CP_StateVar
  \/ CP_Draw0 \/ CP_Step \/ CP_Return

SpecCarp == Init /\ [][NextCarp]_vars

---------------------------------------------------------------------------
(* get_ar_roots, lines 359-376 *)

\* 2.0 * np.pi
TwoPi == 628

\* largest number of widths and of centroids of a call
MaxQpo == 3

WidthValues == {SCALE \div 2, SCALE}
CentroidValues == {0, 2 * SCALE}

GR_Call ==
  /\ pc = "idle"
  /\ \E nw \in 0 .. MaxQpo, nc \in 0 .. MaxQpo :
       \E w \in [Idx(nw) -> WidthValues], c \in [Idx(nc) -> CentroidValues] :
         qpo_width' = w /\ qpo_centroid' = c
  /\ fn' = "get_ar_roots"
  /\ Goto("gr_alloc")
  /\ UNCHANGED <<inVars, histVars, basisVars, kfVars, cpVars, p, psVars>>
  /\ UNCHANGED pwVars

\* lines 367-368, and the loop's first index
GR_Alloc ==
  /\ pc = "gr_alloc"
  /\ p' = Size(qpo_centroid) + Size(qpo_width)
  /\ ar_roots' = [k \in Idx(p') |-> UNSET]
  /\ i' = 0
  /\ Goto("gr_loop")
  /\ UNCHANGED <<fn, time, y, yvar, sigsqr, histVars, basisVars,
                 PredictionVar, StateVector, kalman_mean, kalman_var,
                 innovation, dt, KalmanGain, StateTransition, snap, steps,
                 writes, cpVars, qpo_width, qpo_centroid, psVars>>
  /\ UNCHANGED pwVars
  /\ UNCHANGED obj

\* lines 369-371: one iteration of for i in xrange(p / 2)
GR_Pair ==
  /\ pc = "gr_loop"
  /\ i < p \div 2
  /\ IF i \in DOMAIN qpo_width /\ i \in DOMAIN qpo_centroid
       THEN /\ ar_roots' = [ar_roots EXCEPT
                              ![2 * i] = <<qpo_width[i], qpo_centroid[i]>>,
                              ![2 * i + 1] = CConj(<<qpo_width[i], qpo_centroid[i]>>)]
            /\ i' = i + 1
            /\ Goto("gr_loop")
       ELSE UNCHANGED <<ar_roots, i>> /\ Raise("IndexError")
  /\ UNCHANGED <<fn, time, y, yvar, sigsqr, histVars, basisVars,
                 PredictionVar, StateVector, kalman_mean, kalman_var,
                 innovation, dt, KalmanGain, StateTransition, snap, steps,
                 writes, cpVars, grVars, psVars>>
  /\ UNCHANGED pwVars
  /\ UNCHANGED obj

\* lines 372-374
GR_Last ==
  /\ pc = "gr_loop"
  /\ ~(i < p \div 2)
  /\ IF p % 2 = 1
       THEN IF Size(qpo_width) > 0
              THEN /\ ar_roots' = [ar_roots EXCEPT
                                     ![p - 1] = CReal(qpo_width[Size(qpo_width) - 1])]
                   /\ Goto("gr_return")
              ELSE ar_roots' = ar_roots /\ Raise("IndexError")
       ELSE ar_roots' = ar_roots /\ Goto("gr_return")
  /\ UNCHANGED <<fn, time, y, yvar, sigsqr, histVars, basisVars, kfVars,
                 cpVars, grVars, psVars>>
  /\ UNCHANGED pwVars

\* the sign of the factor lost: 2.0 * np.pi * ar_roots
RootsScaledUp(a) == [k \in DOMAIN a |-> CScale(a[k], TwoPi)]

\* -2.0 * np.pi * ar_roots
RootsScaled(a) == [k \in DOMAIN a |-> CScale(a[k], -TwoPi)]

\* line 376
GR_Return ==
  /\ pc = "gr_return"
  /\ pc' = "returned" /\ err' = err /\ ret' = RootsScaled(ar_roots)
  /\ UNCHANGED <<fn, inVars, histVars, basisVars, kfVars, cpVars, grVars, psVars>>
  /\ UNCHANGED pwVars

NextRoots == GR_Call \/ GR_Alloc \/ GR_Pair \/ GR_Last \/ GR_Return

SpecRoots == Init /\ [][NextRoots]_vars

---------------------------------------------------------------------------
(* CarSample.plot_power_spectrum, lines 121-196 *)

\* most posterior draws of a CarSample
MaxDraws == 4

\* nfreq, the number of frequencies of the grid (1000 at line 149)
NFreq == 3

RECURSIVE FPow(_, _)
FPow(x, k) == IF k = 0 THEN SCALE ELSE FMul(FPow(x, k - 1), x)

MinOf(S) == CHOOSE m \in S : \A x \in S : m <= x
MaxOf(S) == CHOOSE m \in S : \A x \in S : x <= m

\* lines 150-157
FreqMaxOf(t) ==
  LET dt_min == MinOf({t[k] - t[k - 1] : k \in DOMAIN t \ {0}})
  IN  FDiv(SCALE, FDiv(dt_min, 2 * SCALE))
FreqMinOf(t) ==
  LET dt_max == MaxOf({t[k] : k \in DOMAIN t}) - MinOf({t[k] : k \in DOMAIN t})
  IN  FDiv(SCALE, FMul(2 * SCALE, dt_max))

\* lines 159-160: np.exp(np.linspace(log(freq_min), log(freq_max), num)), the
\* geometric grid from freq_min to freq_max; its ratio is the largest g with
\* g ** (num - 1) <= freq_max / freq_min
FrequencyGrid(fmin, fmax, num) ==
  LET ratio == FDiv(fmax, fmin)
      g == IF num < 2 THEN SCALE
           ELSE CHOOSE x \in SCALE .. ratio :
                  FPow(x, num - 1) <= ratio /\ FPow(x + 1, num - 1) > ratio
  IN  [k \in Idx(num) |->
         IF k = 0 THEN fmin
         ELSE IF k = num - 1 THEN fmax
         ELSE FMul(fmin, FPow(g, k))]

\* the stride rounded up instead of down
StrideCeil(n0, n) == (n0 + n - 1) \div n

\* nsamples0 / nsamples, an integer division
Stride(n0, n) == n0 \div n

\* np.arange(nsamples) * (nsamples0 / nsamples)
IndexOf(n0, n) == [k \in Idx(n) |-> k * Stride(n0, n)]

\* a[index]
Take(a, ix) == [k \in DOMAIN ix |-> a[ix[k]]]

\* lines 169-174: the terms k = 0 .. n-1 of ar_coefs[k] * omega ** (p - k)
RECURSIVE ArPolyHead(_, _, _, _)
ArPolyHead(c, omega, pp, n) ==
  IF n = 0 THEN CZero
  ELSE CAdd(ArPolyHead(c, omega, pp, n - 1),
            CScale(CPow(omega, pp - (n - 1)), c[n - 1]))

\* lines 169-175 for one draw
ArPolyOf(c, omega, pp) ==
  CAdd(ArPolyHead(c, omega, pp, pp - 1),
       CAdd(CScale(omega, c[pp - 1]), CReal(c[pp])))

\* np.abs(z) ** 2
AbsSq(z) == FMul(z[1], z[1]) + FMul(z[2], z[2])

\* line 176: sigmas ** 2 / np.abs(ar_poly) ** 2, one value per draw
PsdSamplesOf(sg, co, f, pp) ==
  [d \in DOMAIN sg |->
     FDiv(FMul(sg[d], sg[d]), AbsSq(ArPolyOf(co[d], <<0, FMul(TwoPi, f)>>, pp)))]

\* np.percentile(x, q), linear interpolation between the order statistics
PercentileOf(x, q) ==
  LET xs == SortedArr(x)
      whole == 100 * SCALE
      num == q * (Size(x) - 1)
      j == num \div whole
      frac == num % whole
  IN  IF frac = 0 THEN xs[j]
      ELSE xs[j] + RDiv(frac * (xs[j + 1] - xs[j]), whole)

\* np.median(x)
MedianOf(x) ==
  LET xs == SortedArr(x)
      n == Size(x)
  IN  IF n % 2 = 1 THEN xs[(n - 1) \div 2]
      ELSE RDiv(xs[n \div 2 - 1] + xs[n \div 2], 2)

\* psd_credint[:, c]
Column(M, c) == [k \in DOMAIN M |-> M[k][c]]

\* the columns in the order lower, median, upper
ReturnedTupleLMU(M, f) == <<Column(M, 0), Column(M, 1), Column(M, 2), f>>

\* line 196: (psd_credint[:, 0], psd_credint[:, 2], psd_credint[:, 1], freq)
ReturnedTuple(M, f) == <<Column(M, 0), Column(M, 2), Column(M, 1), f>>

\* the time series of the CarSample, and its posterior draws
PsdTime == [k \in Idx(3) |-> 2 * k * SCALE]
Coefs(a) == [k \in Idx(Len(a)) |-> a[k + 1] * SCALE]
CoefValues(pp) ==
  IF pp = 1 THEN <<Coefs(<<1, 1>>), Coefs(<<1, 2>>)>>
  ELSE IF pp = 2 THEN <<Coefs(<<1, 2, 2>>), Coefs(<<1, 3, 2>>)>>
  ELSE <<Coefs(<<1, 3, 4, 2>>), Coefs(<<1, 4, 6, 4>>)>>
\* the draws a sample of order pp is made of: sigma and ar_coefs
DrawPool(pp) ==
  {[sigma |-> 10 * SCALE, ar_coefs |-> CoefValues(pp)[1]],
   [sigma |-> 20 * SCALE, ar_coefs |-> CoefValues(pp)[2]]}
PercentileValues == {68 * SCALE, 95 * SCALE}

PS_Call ==
  /\ pc = "idle"
  /\ \E pp \in 1 .. 3, n0 \in 1 .. MaxDraws :
       \E d \in [Idx(n0) -> DrawPool(pp)] :
         /\ p' = pp
         /\ samples' = [sigma |-> [k \in Idx(n0) |-> d[k].sigma],
                        ar_coefs |-> [k \in Idx(n0) |-> d[k].ar_coefs]]
  /\ \E n \in {NoneArg} \cup (0 .. MaxDraws + 1) : nsamples' = n
  /\ \E q \in PercentileValues : percentile' = q
  /\ time' = PsdTime /\ time0' = PsdTime
  /\ fn' = "plot_power_spectrum"
  /\ Goto("ps_subsample")
  /\ UNCHANGED <<y, yvar, sigsqr, ar_roots, y0, yvar0, prev, basisVars, kfVars,
                 cpVars, qpo_width, qpo_centroid, sigmas, ar_coefs, index,
                 frequencies, psd_credint, lower, upper>>
  /\ UNCHANGED pwVars

\* lines 133-147
PS_Subsample ==
  /\ pc = "ps_subsample"
  /\ IF nsamples = NoneArg
       THEN /\ nsamples' = Size(samples.sigma)
            /\ sigmas' = samples.sigma /\ ar_coefs' = samples.ar_coefs
            /\ index' = index
            /\ Goto("ps_grid")
       ELSE IF nsamples = 0
         THEN UNCHANGED <<nsamples, sigmas, ar_coefs, index>>
              /\ Raise("ZeroDivisionError")
         ELSE /\ index' = IndexOf(Size(samples.sigma), nsamples)
              /\ nsamples' = nsamples
              /\ IF \A k \in DOMAIN index' : index'[k] \in DOMAIN samples.sigma
                   THEN /\ sigmas' = Take(samples.sigma, index')
                        /\ ar_coefs' = Take(samples.ar_coefs, index')
                        /\ Goto("ps_grid")
                   ELSE /\ UNCHANGED <<sigmas, ar_coefs>>
                        /\ Raise("IndexError")
  /\ UNCHANGED <<fn, inVars, histVars, basisVars, kfVars, cpVars, grVars,
                 samples, percentile, frequencies, psd_credint, lower, upper>>
  /\ UNCHANGED pwVars

\* lines 149-164
PS_Grid ==
  /\ pc = "ps_grid"
  /\ frequencies' = FrequencyGrid(FreqMinOf(time), FreqMaxOf(time), NFreq)
  /\ psd_credint' = [k \in Idx(NFreq) |-> [c \in Idx(3) |-> UNSET]]
  /\ lower' = FDiv(100 * SCALE - percentile, 2 * SCALE)
  /\ upper' = 100 * SCALE - lower'
  /\ i' = 0
  /\ Goto("ps_loop")
  /\ UNCHANGED <<fn, inVars, histVars, basisVars, PredictionVar, StateVector,
                 kalman_mean, kalman_var, innovation, dt, KalmanGain,
                 StateTransition, snap, steps, writes, cpVars, grVars,
                 samples, sigmas, ar_coefs, nsamples, percentile, index>>
  /\ UNCHANGED pwVars
  /\ UNCHANGED obj

\* lines 167-181: one iteration of for i in xrange(nfreq)
PS_Freq ==
  /\ pc = "ps_loop"
  /\ i < NFreq
  /\ \E psd_samples \in {PsdSamplesOf(sigmas, ar_coefs, frequencies[i], p)} :
         psd_credint' = [psd_credint EXCEPT ![i] =
           [c \in Idx(3) |->
              IF c = 0 THEN PercentileOf(psd_samples, lower)
              ELSE IF c = 2 THEN PercentileOf(psd_samples, upper)
              ELSE MedianOf(psd_samples)]]
  /\ i' = i + 1
  /\ Goto("ps_loop")
  /\ UNCHANGED <<fn, inVars, histVars, basisVars, PredictionVar, StateVector,
                 kalman_mean, kalman_var, innovation, dt, KalmanGain,
                 StateTransition, snap, steps, writes, cpVars, grVars,
                 samples, sigmas, ar_coefs, nsamples, percentile, index,
                 frequencies, lower, upper>>
  /\ UNCHANGED pwVars
  /\ UNCHANGED obj

\* lines 184-196: the plot, and the tuple returned
PS_Return ==
  /\ pc = "ps_loop"
  /\ ~(i < NFreq)
  /\ pc' = "returned" /\ err' = err
  /\ ret' = ReturnedTuple(psd_credint, frequencies)
  /\ UNCHANGED <<fn, inVars, histVars, basisVars, kfVars, cpVars, grVars, psVars>>
  /\ UNCHANGED pwVars

NextPsd == PS_Call \/ PS_Subsample \/ PS_Grid \/ PS_Freq \/ PS_Return

SpecPsd == Init /\ [][NextPsd]_vars

---------------------------------------------------------------------------
(* power_spectrum, lines 379-391 *)

MaxFreq == 2

\* np.polyval(c, x) up to the coefficient n-1: y = 0, then y = y * x + c[k]
\* for each coefficient in turn
RECURSIVE PolyValHead(_, _, _)
PolyValHead(c, x, n) ==
  IF n = 0 THEN CZero
  ELSE CAdd(CMul(PolyValHead(c, x, n - 1), x), CReal(c[n - 1]))

\* np.polyval with the coefficients taken from the constant term upwards
polyvalReversed(c, x) ==
  PolyValHead([k \in DOMAIN c |-> c[Size(c) - 1 - k]], x, Size(c))

\* np.polyval(c, x)
polyval(c, x) == PolyValHead(c, x, Size(c))

\* 2.0 * np.pi * 1j * f
OmegaOf(f) == <<0, FMul(TwoPi, f)>>

\* sigma ** 2 / np.abs(z) ** 2
PspecOf(sg, z) == FDiv(FMul(sg, sg), AbsSq(z))

\* the frequencies, driving-noise deviations and coefficient vectors passed
FreqValues == {0, 16, 30, SCALE \div 2}
SigmaValues == {10 * SCALE, 20 * SCALE}
ArCoefValues == UNION {{CoefValues(pp)[1], CoefValues(pp)[2]} : pp \in 1 .. 3}

PW_Call ==
  /\ pc = "idle"
  /\ fn' = "power_spectrum"
  /\ \E n \in 1 .. MaxFreq : \E f \in [Idx(n) -> FreqValues] : freq' = f
  /\ \E sg \in SigmaValues : sigma' = sg
  /\ \E c \in ArCoefValues : ar_coef' = c
  /\ Goto("pw_poly")
  /\ UNCHANGED <<ar_poly, pspec>>
  /\ UNCHANGED <<inVars, histVars, basisVars, kfVars, cpVars, grVars, psVars>>

\* line 389
PW_Poly ==
  /\ pc = "pw_poly"
  /\ ar_poly' = [k \in DOMAIN freq |-> polyval(ar_coef, OmegaOf(freq[k]))]
  /\ Goto("pw_pspec")
  /\ UNCHANGED <<freq, sigma, ar_coef, pspec>>
  /\ UNCHANGED <<fn, inVars, histVars, basisVars, kfVars, cpVars, grVars,
                 psVars>>

\* lines 390-391
PW_Return ==
  /\ pc = "pw_pspec"
  /\ pspec' = [k \in DOMAIN freq |-> PspecOf(sigma, ar_poly[k])]
  /\ pc' = "returned" /\ err' = err /\ ret' = pspec'
  /\ UNCHANGED <<freq, sigma, ar_coef, ar_poly>>
  /\ UNCHANGED <<fn, inVars, histVars, basisVars, kfVars, cpVars, grVars,
                 psVars>>

NextPower == PW_Call \/ PW_Poly \/ PW_Return

SpecPower == Init /\ [][NextPower]_vars

---------------------------------------------------------------------------
(* Any one call *)

Next == NextKalmanTwice \/ NextCarp \/ NextRoots \/ NextPsd \/ NextPower

Spec == Init /\ [][Next]_vars

---------------------------------------------------------------------------
(* Properties of kalman_filter *)

InKalman == fn = "kalman_filter"
LoopBody == {"kf_gain", "kf_state", "kf_predvar", "kf_trans", "kf_relax",
             "kf_mean", "kf_var", "kf_innov"}

(* The step that ends at index ix, computed from the carried state at the head
   of the iteration (snap) in the order (a)-(f): every value below reads only
   snap, the prediction variance of index ix - 1 and the inputs at ix. *)
StepGain(ix) ==
  [j \in DOMAIN snap.P |-> CDivR(CSum(snap.P[j]), kalman_var[ix - 1])]
StepStateA(ix) ==
  [j \in DOMAIN snap.state |->
     CAdd(snap.state[j], CScale(StepGain(ix)[j], snap.innov))]
StepVarA(ix) ==
  [j \in DOMAIN snap.P |-> [k \in DOMAIN snap.P |->
     CSub(snap.P[j][k],
          CScale(CMul(StepGain(ix)[j], CConj(StepGain(ix)[k])),
                 kalman_var[ix - 1]))]]
StepT(ix) ==
  [j \in DOMAIN ar_roots |-> CExp(CScale(ar_roots[j], time[ix] - time[ix - 1]))]
StepStateB(ix) ==
  [j \in DOMAIN snap.state |-> CMul(StepStateA(ix)[j], StepT(ix)[j])]
StepVarB(ix) ==
  [j \in DOMAIN snap.P |-> [k \in DOMAIN snap.P |->
     CAdd(CMul(CMul(StepT(ix)[j], CConj(StepT(ix)[k])),
               CSub(StepVarA(ix)[j][k], StateVar[j][k])),
          StateVar[j][k])]]
StepMean(ix) == Re(CSum(StepStateB(ix)))
StepVariance(ix) == Re(MatSum(StepVarB(ix))) + yvar[ix]

\* C1: in every step i >= 1 the gain is rowsum(P)/predvar_{i-1} of the P left by
\* step i-1, then the state gains e_{i-1}*k, then P loses predvar_{i-1}*k*k^H,
\* and only then state and P are propagated over t_i - t_{i-1}, mean_i and var_i
\* are written and e_i = y_i - mean_i is computed.
C1_StepOrder ==
  InKalman =>
    /\ pc = "kf_gain" =>
         PredictionVar = snap.P /\ StateVector = snap.state /\ innovation = snap.innov
    /\ pc = "kf_state" =>
         /\ KalmanGain = StepGain(i)
         /\ PredictionVar = snap.P /\ StateVector = snap.state
    /\ pc = "kf_predvar" =>
         /\ StateVector = StepStateA(i) /\ PredictionVar = snap.P
         /\ KalmanGain = StepGain(i) /\ innovation = snap.innov
    /\ pc = "kf_trans" =>
         PredictionVar = StepVarA(i) /\ StateVector = StepStateA(i)
    /\ pc = "kf_relax" =>
         /\ StateVector = StepStateB(i) /\ PredictionVar = StepVarA(i)
         /\ StateTransition = StepT(i)
    /\ pc = "kf_mean" =>
         /\ PredictionVar = StepVarB(i) /\ StateVector = StepStateB(i)
         /\ Len(writes) = 2 * i /\ writes[Len(writes)] = <<"var", i - 1>>
    /\ pc = "kf_var" =>
         /\ kalman_mean[i] = StepMean(i)
         /\ writes[Len(writes)] = <<"mean", i>>
    /\ pc = "kf_innov" =>
         /\ kalman_var[i] = StepVariance(i) /\ kalman_mean[i] = StepMean(i)
         /\ writes[Len(writes)] = <<"var", i>>
         /\ innovation = snap.innov
    /\ pc \in {"kf_loop", "returned"} /\ steps # <<>> =>
         /\ StateVector = StepStateB(i - 1) /\ PredictionVar = StepVarB(i - 1)
         /\ kalman_mean[i - 1] = StepMean(i - 1)
         /\ kalman_var[i - 1] = StepVariance(i - 1)
         /\ innovation = y[i - 1] - StepMean(i - 1)

\* a second step has ended, with a complex gain and a non-zero innovation fed in
C1_Witness ==
  /\ InKalman /\ pc = "kf_loop" /\ Len(steps) = 2
  /\ snap.innov # 0 /\ Im(KalmanGain[0]) # 0 /\ StateVector[0] # CZero
  /\ PredictionVar # StateVar

StrictlyIncreasing(t) == \A j, k \in DOMAIN t : j < k => t[j] < t[k]
RootsStable(r) == \A k \in DOMAIN r : Re(r[k]) < 0
RootsDistinct(r) == \A j, k \in DOMAIN r : j # k => r[j] # r[k]

\* an input the filter is specified for: n >= 1 increasing time points, y and
\* yvar as long as time, p >= 1 distinct roots with negative real part
KalmanInputValid ==
  /\ Size(time0) >= 1 /\ StrictlyIncreasing(time0)
  /\ Size(y0) = Size(time0) /\ Size(yvar0) = Size(time0)
  /\ Size(ar_roots) >= 1 /\ RootsStable(ar_roots) /\ RootsDistinct(ar_roots)

\* what C2 says of a run of the filter, the failure left aside
C2_Run ==
  /\ pc = "kf_var0" =>
       /\ StateVector = [j \in DOMAIN ar_roots |-> CZero]
       /\ PredictionVar = StateVar /\ kalman_mean[0] = 0
  /\ pc = "kf_innov0" =>
       kalman_var[0] = Re(MatSum(StateVar)) + yvar[0]
  /\ \A k \in 1 .. Len(steps) : steps[k] = k
  /\ pc = "returned" =>
       /\ Len(steps) = Size(time) - 1
       /\ ret = <<kalman_mean, kalman_var>>
       /\ DOMAIN kalman_mean = DOMAIN time /\ DOMAIN kalman_var = DOMAIN time
       /\ \A k \in DOMAIN time : \A a \in {"mean", "var"} :
            Cardinality({w \in DOMAIN writes : writes[w] = <<a, k>>}) = 1

\* C2: for any input with n >= 1 time points the filter starts from state = 0,
\* P = S, mean_0 = 0, var_0 = Re(sum(S)) + v_0, runs the steps 1..n-1 once each
\* in increasing order, ends after the last observation and returns arrays of
\* length n with every index written exactly once.
C2_Claim ==
  InKalman /\ KalmanInputValid => pc # "raised" /\ C2_Run

\* the same with two roots or more, where line 298 is in bounds
C2_TwoRootsOrMore ==
  InKalman /\ KalmanInputValid /\ Size(ar_roots) >= 2 => pc # "raised" /\ C2_Run

\* an input the filter is specified to reject
KalmanInputRejected ==
  \/ ~StrictlyIncreasing(time0)
  \/ Size(y0) # Size(time0) \/ Size(yvar0) # Size(time0)
  \/ Size(ar_roots) = 0

\* C4: non-increasing time points, arrays of different lengths or an empty root
\* set are reported before any computation: no output entry is written, no
\* recursion step runs and nothing is returned.
C4_Claim ==
  InKalman /\ KalmanInputRejected =>
    writes = <<>> /\ steps = <<>> /\ pc \notin LoopBody /\ pc # "returned"

---------------------------------------------------------------------------
(* Properties of carp_process *)

InCarp == fn = "carp_process"

\* a root set the simulator is specified to reject: a root with non-negative
\* real part, or two roots within 1e-8 of each other (equal, at this resolution)
RootsRejected(r) == ~RootsStable(r) \/ ~RootsDistinct(r)

\* C3: with a root of non-negative real part, or two roots closer than 1e-8, the
\* call ends in a precondition failure, draws no random state and returns no
\* path (stated for the calls with a time point to simulate).
C3_Claim ==
  InCarp /\ RootsRejected(ar_roots) /\ Size(time0) >= 1 =>
    draws = 0 /\ pc # "returned"

\* C7: the caller's time, y and observation-variance arrays hold, at every point
\* of a call to kalman_filter or carp_process and after it, the values they held
\* before the call.
C7_Claim ==
  (InKalman \/ InCarp) => time = time0 /\ y = y0 /\ yvar = yvar0

\* the part of C7 that is about the filter
C7_KalmanOnly == InKalman => time = time0 /\ y = y0 /\ yvar = yvar0

\* C10: for every p >= 1, p = 1 included, both functions build EigenMat with p
\* rows, row k the k-th power of the roots, and go on to the recursion with no
\* indexing failure.
C10_Claim ==
  (InKalman \/ InCarp) /\ Size(ar_roots) >= 1 =>
    /\ ~(pc = "raised" /\ err = "IndexError" /\ Size(Jvector) = 0)
    /\ pc \notin {"idle", "kf_eigen", "cp_sort", "cp_check", "cp_eigen"} =>
         /\ DOMAIN EigenMat = DOMAIN ar_roots
         /\ \A k, j \in DOMAIN ar_roots : EigenMat[k][j] = CPow(ar_roots[j], k)

\* the same with two roots or more
C10_TwoRootsOrMore ==
  (InKalman \/ InCarp) /\ Size(ar_roots) >= 2 =>
    /\ ~(pc = "raised" /\ err = "IndexError" /\ Size(Jvector) = 0)
    /\ pc \notin {"idle", "kf_eigen", "cp_sort", "cp_check", "cp_eigen"} =>
         /\ DOMAIN EigenMat = DOMAIN ar_roots
         /\ \A k, j \in DOMAIN ar_roots : EigenMat[k][j] = CPow(ar_roots[j], k)

---------------------------------------------------------------------------
(* Properties of get_ar_roots *)

InRoots == fn = "get_ar_roots"

\* the counts get_ar_roots is specified for
CountsMatch ==
  Size(qpo_width) \in {Size(qpo_centroid), Size(qpo_centroid) + 1}

\* C5: for widths > 0 and centroids >= 0 with len(w) = len(c) or len(c) + 1 the
\* call returns len(w) + len(c) roots, -2*pi*(w_i + i*c_i) at 2i and its
\* conjugate at 2i+1 for every i < len(c), the real root -2*pi*w_last last when
\* the count is odd; every root has negative real part and the set is closed
\* under conjugation.
C5_RootsLayout ==
  InRoots /\ CountsMatch =>
    /\ pc # "raised"
    /\ pc = "returned" =>
         /\ DOMAIN ret = Idx(Size(qpo_width) + Size(qpo_centroid))
         /\ \A k \in DOMAIN qpo_centroid :
              /\ ret[2 * k] = <<-FMul(TwoPi, qpo_width[k]),
                                -FMul(TwoPi, qpo_centroid[k])>>
              /\ ret[2 * k + 1] = <<-FMul(TwoPi, qpo_width[k]),
                                    FMul(TwoPi, qpo_centroid[k])>>
         /\ Size(qpo_width) > Size(qpo_centroid) =>
              ret[Size(ret) - 1] =
                <<-FMul(TwoPi, qpo_width[Size(qpo_width) - 1]), 0>>
         /\ \A k \in DOMAIN ret : Re(ret[k]) < 0
         /\ \A k \in DOMAIN ret : \E j \in DOMAIN ret : ret[j] = CConj(ret[k])

\* an odd count is returned: two oscillating pairs and the real root
C5_Witness ==
  /\ InRoots /\ pc = "returned" /\ Size(qpo_width) = 3 /\ Size(qpo_centroid) = 2
  /\ Im(ret[0]) # 0 /\ Im(ret[4]) = 0 /\ ret[2] # ret[0]

\* C6: a wrong count of widths against centroids is reported as a precondition
\* violation, and no root array is ever returned.
C6_Claim ==
  InRoots /\ ~CountsMatch => pc # "returned"

\* C6 in full: nor is any pair computed before the report
C6_NothingComputed ==
  InRoots /\ ~CountsMatch => pc # "returned" /\ (pc = "raised" => i = 0)

---------------------------------------------------------------------------
(* Properties of plot_power_spectrum *)

InPsd == fn = "plot_power_spectrum"

\* nsamples was given, and asks for 1 <= M <= N draws: index exists
Subsampled ==
  /\ InPsd /\ pc \in {"ps_grid", "ps_loop", "returned"}
  /\ Size(index) > 0 /\ nsamples <= Size(samples.sigma)

\* C8: subsampling M of N draws, 1 <= M <= N, uses the draws k*floor(N/M),
\* k = 0..M-1: M indices, pairwise distinct, all in 0..N-1, and the same ones
\* for the sigma and for the coefficient samples.
C8_Subsample ==
  Subsampled =>
    LET N == Size(samples.sigma)
        M == nsamples
    IN  /\ DOMAIN index = Idx(M)
        /\ \E s \in 1 .. N :
             /\ s * M <= N /\ N < (s + 1) * M
             /\ \A k \in Idx(M) : index[k] = k * s
        /\ \A j, k \in Idx(M) : j # k => index[j] # index[k]
        /\ \A k \in Idx(M) : index[k] \in Idx(N)
        /\ DOMAIN sigmas = Idx(M) /\ DOMAIN ar_coefs = Idx(M)
        /\ \A k \in Idx(M) :
             /\ sigmas[k] = samples.sigma[index[k]]
             /\ ar_coefs[k] = samples.ar_coefs[index[k]]

\* two of three draws are taken, and the draw left out differs from those taken
C8_Witness ==
  /\ Subsampled /\ nsamples = 2 /\ Size(samples.sigma) = 3
  /\ samples.sigma[2] # samples.sigma[1] /\ sigmas[1] = samples.sigma[1]

\* the PSD values of the draws used, at frequency k of the grid
PsdAt(k) == PsdSamplesOf(sigmas, ar_coefs, frequencies[k], p)
LowerQ == FDiv(100 * SCALE - percentile, 2 * SCALE)
UpperQ == 100 * SCALE - LowerQ
Median50 == 50 * SCALE

\* C9, as stated: the bands are returned in the order (lower, median, upper).
C9_Original ==
  InPsd /\ pc = "returned" =>
    \A k \in Idx(NFreq) :
      /\ ret[1][k] = PercentileOf(PsdAt(k), LowerQ)
      /\ ret[2][k] = PercentileOf(PsdAt(k), Median50)
      /\ ret[3][k] = PercentileOf(PsdAt(k), UpperQ)

\* C9, amended: the bands are returned in the order (lower, upper, median),
\* followed by the frequencies; lower is the (100 - percentile)/2 percentile,
\* upper the 100 - (100 - percentile)/2 percentile and median the 50th
\* percentile of the PSD values of the draws used at that frequency.
C9_ReturnOrder ==
  InPsd /\ pc = "returned" =>
    /\ Len(ret) = 4 /\ ret[4] = frequencies
    /\ \A k \in Idx(NFreq) :
         /\ ret[1][k] = PercentileOf(PsdAt(k), LowerQ)
         /\ ret[2][k] = PercentileOf(PsdAt(k), UpperQ)
         /\ ret[3][k] = PercentileOf(PsdAt(k), Median50)

\* a band is returned whose lower, median and upper values all differ
C9_Witness ==
  /\ InPsd /\ pc = "returned"
  /\ \E k \in Idx(NFreq) : ret[1][k] < ret[3][k] /\ ret[3][k] < ret[2][k]

\* no quotient of the PSD has a zero divisor
PsdDivisorsNonZero ==
  InPsd /\ pc = "ps_loop" =>
    \A k \in Idx(NFreq) : \A d \in DOMAIN sigmas :
      AbsSq(ArPolyOf(ar_coefs[d], <<0, FMul(TwoPi, frequencies[k])>>, p)) > 0

---------------------------------------------------------------------------
(* Two calls of kalman_filter on the same time, yvar, sigsqr and ar_roots *)

\* the second call has returned; prev[1] holds the first call's y and outputs
BothReturned == InKalman /\ pc = "returned" /\ Len(prev) = 1

\* the two observation arrays agree on every index below ix
AgreeBelow(ix) == \A j \in DOMAIN y : j < ix => prev[1].y[j] = y[j]

\* C12: kalman_filter is causal in the observations. Of two calls with the
\* same time, yvar, sigsqr and ar_roots whose observation arrays agree on all
\* indices j < i, the predictive means at index i are equal; the predictive
\* variance array is the same whatever the observations are; and the last
\* observation changes no output.
C12_Causal ==
  BothReturned =>
    /\ \A ix \in DOMAIN kalman_mean :
         AgreeBelow(ix) => kalman_mean[ix] = prev[1].kalman_mean[ix]
    /\ kalman_var = prev[1].kalman_var
    /\ AgreeBelow(Size(y) - 1) =>
         /\ kalman_mean = prev[1].kalman_mean
         /\ ret = <<prev[1].kalman_mean, prev[1].kalman_var>>

\* three observations, the two calls differ in the middle one only: the means
\* agree up to index 1 and differ at index 2, the variances agree
C12_Witness ==
  /\ BothReturned /\ Size(time) = 3 /\ Size(y) = 3
  /\ prev[1].y[0] = y[0] /\ prev[1].y[1] # y[1] /\ prev[1].y[2] = y[2]
  /\ kalman_mean[1] = prev[1].kalman_mean[1]
  /\ kalman_mean[2] # prev[1].kalman_mean[2]
  /\ kalman_var[2] = prev[1].kalman_var[2]

\* the two calls differ in the last of three observations only
C12_LastObservation ==
  /\ BothReturned /\ Size(time) = 3 /\ Size(y) = 3
  /\ AgreeBelow(2) /\ prev[1].y[2] # y[2]
  /\ kalman_mean = prev[1].kalman_mean

---------------------------------------------------------------------------
(* The stationary covariance during the recursion *)

\* the recursion of lines 337-354 has been entered and no exception has left it
InRecursion == InKalman /\ pc \in LoopBody \cup {"kf_loop", "returned"}

\* C13: throughout the recursion StateVar keeps the value computed before the
\* loop. The updates in place of PredictionVar, which started as a copy of
\* StateVar, and of StateVector act on objects of their own and never write to
\* StateVar, so every relaxation uses the same StateVar; and none of the three
\* objects is one an earlier call worked on.
C13_StationaryKept ==
  InRecursion =>
    /\ StateVar = StateVarOf(sigsqr, Jvector, ar_roots)
    /\ obj.StateVar # 0
    /\ obj.StateVar # obj.PredictionVar /\ obj.StateVar # obj.StateVector
    /\ obj.PredictionVar # obj.StateVector
    /\ \A k \in DOMAIN prev : ObjectsOf(obj) \cap prev[k].objects = {}

\* in the second iteration of a second call, PredictionVar has just been
\* reduced in place and differs from StateVar
C13_Witness ==
  /\ InRecursion /\ pc = "kf_trans" /\ i = 2 /\ Len(prev) = 1
  /\ PredictionVar # StateVar
  /\ PredictionVar # snap.P

---------------------------------------------------------------------------
(* Properties of power_spectrum *)

InPower == fn = "power_spectrum"

\* the order p of the polynomial a_0 .. a_p
PolyOrder == Size(ar_coef) - 1

\* the polynomial as the loop of plot_power_spectrum accumulates it
TermByTerm(k) == ArPolyOf(ar_coef, OmegaOf(freq[k]), PolyOrder)

\* the angular frequency is a whole number: with whole coefficients no product
\* of either evaluation is rounded
NoRounding(f) == OmegaOf(f)[2] % SCALE = 0

\* the rounding the two orders of evaluation may differ by: one unit of the
\* last place, and one more per whole unit of the largest coefficient
RoundingOf(c) == 1 + MaxOf({Abs(c[k]) : k \in DOMAIN c}) \div SCALE

\* C11: for every order p >= 1, coefficients a_0 .. a_p and frequency, the
\* polynomial accumulated term by term in plot_power_spectrum is the value
\* polyval computes in power_spectrum, the sum of a_k * (2 pi i f)^(p-k): the
\* two agree to the rounding of the products, exactly where no product is
\* rounded, and where they agree both give the same sigma^2 / |poly|^2.
C11_SamePolynomial ==
  InPower /\ pc = "returned" =>
    \A k \in DOMAIN freq :
      /\ Abs(Re(ar_poly[k]) - Re(TermByTerm(k))) <= RoundingOf(ar_coef)
      /\ Abs(Im(ar_poly[k]) - Im(TermByTerm(k))) <= RoundingOf(ar_coef)
      /\ NoRounding(freq[k]) => ar_poly[k] = TermByTerm(k)
      /\ ar_poly[k] = TermByTerm(k) =>
           pspec[k] = PsdSamplesOf([d \in Idx(1) |-> sigma],
                                   [d \in Idx(1) |-> ar_coef],
                                   freq[k], PolyOrder)[0]

\* a polynomial of order 3 evaluated at a non-zero frequency without rounding
\* and at one with rounding, every coefficient contributing
C11_Witness ==
  /\ InPower /\ pc = "returned" /\ PolyOrder = 3 /\ Size(freq) = 2
  /\ freq[0] = 16 /\ Re(ar_poly[0]) # 0 /\ Im(ar_poly[0]) # 0
  /\ ~NoRounding(freq[1]) /\ ar_poly[1] # TermByTerm(1)

\* no PSD of power_spectrum divides by zero
PowerDivisorsNonZero ==
  InPower /\ pc \in {"pw_pspec", "returned"} =>
    \A k \in DOMAIN freq : AbsSq(ar_poly[k]) # 0 /\ AbsSq(TermByTerm(k)) # 0

===========================================================================
